---- MODULE Spec2Model ----
(***************************************************************************)
(* Buffer pool manager (BufferPoolManagerInstance) together with its page  *)
(* table (ExtendibleHashTable) and its replacer (LRUKReplacer).            *)
(*                                                                         *)
(* The page table and the replacer are values (records) transformed by     *)
(* operators that follow the member functions of the two classes; the      *)
(* actions of the buffer pool compose them exactly as the C++ code does.   *)
(***************************************************************************)
EXTENDS Integers, Sequences, FiniteSets, TLC

(***************************************************************************)
(* Bounds of the model.                                                    *)
(***************************************************************************)
PoolSize == 2       \* pool_size, constructor argument
ReplacerK == 2      \* replacer_k, constructor argument
BucketSize == 1     \* bucket_size of the page table
MaxPageId == 3      \* NewPage is explored while next_page_id_ < MaxPageId
MaxData == 1        \* page images are the values 0..MaxData
MaxPin == 2         \* a page is fetched while its pin count is < MaxPin
MaxAccess == 2      \* a frame is accessed while its access count is < MaxAccess
MaxDrift == 1       \* a page is deleted while curr_size_ is less than MaxDrift
                    \* below the number of set evictable flags
NumThreads == 2     \* threads that call the buffer pool concurrently
MaxKey == 4         \* keys of the hash table on its own are 0..MaxKey-1
MaxValue == 1       \* its values are 0..MaxValue
MaxBucketSize == 2  \* its bucket_size is one of 1..MaxBucketSize
MaxGlobalDepth == 3 \* the directory doubles while global_depth_ is below
                    \* MaxGlobalDepth; the next doubling exhausts memory
MaxK == 3           \* k of the replacer on its own is one of 1..MaxK
MaxClock == 4       \* it records accesses while fewer than MaxClock were made

(***************************************************************************)
(* Program constants.                                                      *)
(***************************************************************************)
INVALID_PAGE_ID == -1
ZeroImage == 0          \* Page::ResetMemory: the all-zero image
SizeMod == 2^30         \* size_t arithmetic is modular; 2^30 stands for 2^64,
                        \* which the model checker's integers cannot hold. No
                        \* counter of the model moves further than
                        \* MaxPageId + MaxAccess away from 0.

Frames == 0..(PoolSize - 1)
PageIds == 0..(MaxPageId - 1)
Data == 0..MaxData
Threads == 1..NumThreads
Keys == 0..(MaxKey - 1)
FrameIds == 0..(PoolSize + 1)   \* frame ids passed to the replacer on its own
Values == 0..MaxValue

(***************************************************************************)
(* Helpers on finite maps (std::unordered_map) and lists (std::list).      *)
(***************************************************************************)
MinOf(S) == CHOOSE x \in S : \A y \in S : x <= y

EmptyMap == [x \in {} |-> 0]
MapPut(m, key, v) == [x \in (DOMAIN m) \cup {key} |-> IF x = key THEN v ELSE m[x]]
MapErase(m, key) == [x \in (DOMAIN m) \ {key} |-> m[x]]
\* m[key] of std::unordered_map read through operator[]: a missing key reads
\* as the value-initialised default (and is inserted, see MapTouch).
MapAt(m, key, default) == IF key \in DOMAIN m THEN m[key] ELSE default
MapTouch(m, key, default) == IF key \in DOMAIN m THEN m ELSE MapPut(m, key, default)

ListRemove(list, x) == SelectSeq(list, LAMBDA e : e # x)
ListEraseAt(list, i) == SubSeq(list, 1, i - 1) \o SubSeq(list, i + 1, Len(list))

SizeInc(x) == (x + 1) % SizeMod
SizeDec(x) == (x - 1) % SizeMod

(***************************************************************************)
(* ExtendibleHashTable<K, V>                                               *)
(*   h.global_depth_, h.bucket_size_, h.num_buckets_                       *)
(*   h.dir_     : sequence of bucket references (index i of the code is    *)
(*                position i + 1)                                          *)
(*   h.buckets  : the live Bucket objects, by reference; a bucket is       *)
(*                [depth_, list_], list_ a sequence of <<key, value>>      *)
(***************************************************************************)
Hash(key) == key

NewBucket(depth) == [depth_ |-> depth, list_ |-> <<>>]

HashTableInit(bucket_size) ==
  [global_depth_ |-> 0, bucket_size_ |-> bucket_size, num_buckets_ |-> 1,
   dir_ |-> <<0>>, buckets |-> MapPut(EmptyMap, 0, NewBucket(0))]

IndexOf(h, key) == Hash(key) % (2^(h.global_depth_))

IsFull(b, size) == Len(b.list_) = size

BucketFind(b, key) ==
  LET S == {i \in 1..Len(b.list_) : b.list_[i][1] = key}
  IN IF S = {} THEN [found |-> FALSE, value |-> -1]
     ELSE [found |-> TRUE, value |-> b.list_[MinOf(S)][2]]

BucketRemove(b, key) ==
  LET S == {i \in 1..Len(b.list_) : b.list_[i][1] = key}
  IN IF S = {} THEN [found |-> FALSE, b |-> b]
     ELSE [found |-> TRUE,
           b |-> [b EXCEPT !.list_ = ListRemove(@, b.list_[MinOf(S)])]]

BucketInsert(b, size, key, value) ==
  IF IsFull(b, size) THEN b ELSE [b EXCEPT !.list_ = Append(@, <<key, value>>)]

HashTableFind(h, key) == BucketFind(h.buckets[h.dir_[IndexOf(h, key) + 1]], key)

\* Remove that finds the bucket and erases nothing
HashTableRemove_Keep(h, key) ==
  [found |-> BucketFind(h.buckets[h.dir_[IndexOf(h, key) + 1]], key).found,
   h |-> h]

HashTableRemove(h, key) ==
  LET ref == h.dir_[IndexOf(h, key) + 1]
      res == BucketRemove(h.buckets[ref], key)
  IN [found |-> res.found, h |-> [h EXCEPT !.buckets[ref] = res.b]]

\* a redistribution that sends every item to bucket_0
MaskedBit_Zero(hashcode, mask) == 0

\* (hashcode & mask) for mask = 1 << depth: 0 or 1 for a clear or set bit
MaskedBit(hashcode, mask) == (hashcode \div mask) % 2

RECURSIVE Redistribute(_, _, _, _)
\* the loop over target_bucket->GetItems(): acc = <<bucket_0, bucket_1>>
Redistribute(items, mask, size, acc) ==
  IF items = <<>> THEN acc
  ELSE LET item == Head(items)
       IN Redistribute(Tail(items), mask, size,
            IF MaskedBit(Hash(item[1]), mask) = 0
            THEN <<BucketInsert(acc[1], size, item[1], item[2]), acc[2]>>
            ELSE <<acc[1], BucketInsert(acc[2], size, item[1], item[2])>>)

\* a split that doubles the directory every time
MustGrow_Always(local_depth, global_depth) == TRUE

\* target_bucket->GetDepth() == GetGlobalDepthInternal()
MustGrow(local_depth, global_depth) == local_depth = global_depth

\* one iteration of the while loop of Insert
SplitBucket(h, key) ==
  LET ref == h.dir_[IndexOf(h, key) + 1]
      target_bucket == h.buckets[ref]
      grow == MustGrow(target_bucket.depth_, h.global_depth_)
      dir1 == IF grow THEN h.dir_ \o h.dir_ ELSE h.dir_
      mask == 2^(target_bucket.depth_)
      \* a Bucket is referred to by the lowest directory slot that holds it
      ref_0 == MinOf({i \in 1..Len(dir1) :
                        dir1[i] = ref /\ ((i - 1) \div mask) % 2 = 0} \cup {Len(dir1) + 1}) - 1
      ref_1 == MinOf({i \in 1..Len(dir1) :
                        dir1[i] = ref /\ ((i - 1) \div mask) % 2 = 1} \cup {Len(dir1) + 2}) - 1
      halves == Redistribute(target_bucket.list_, mask, h.bucket_size_,
                             <<NewBucket(target_bucket.depth_ + 1),
                               NewBucket(target_bucket.depth_ + 1)>>)
  IN [h EXCEPT
        !.global_depth_ = IF grow THEN @ + 1 ELSE @,
        !.num_buckets_ = @ + 1,
        !.dir_ = [i \in 1..Len(dir1) |->
                    IF dir1[i] = ref
                    THEN (IF ((i - 1) \div mask) % 2 = 0 THEN ref_0 ELSE ref_1)
                    ELSE dir1[i]],
        !.buckets = MapPut(MapPut(MapErase(@, ref), ref_0, halves[1]),
                           ref_1, halves[2])]

RECURSIVE SplitWhileFull(_, _)
SplitWhileFull(h, key) ==
  IF IsFull(h.buckets[h.dir_[IndexOf(h, key) + 1]], h.bucket_size_)
  THEN SplitWhileFull(SplitBucket(h, key), key)
  ELSE h

RECURSIVE InsertExhausts(_, _)
\* the while loop of Insert never leaves: it doubles dir_ until the
\* allocation fails
InsertExhausts(h, key) ==
  LET target_bucket == h.buckets[h.dir_[IndexOf(h, key) + 1]]
  IN IF ~IsFull(target_bucket, h.bucket_size_) THEN FALSE
     ELSE IF MustGrow(target_bucket.depth_, h.global_depth_)
             /\ h.global_depth_ >= MaxGlobalDepth THEN TRUE
     ELSE InsertExhausts(SplitBucket(h, key), key)

HashTableInsert(h, key, value) ==
  LET h1 == SplitWhileFull(h, key)
      ref == h1.dir_[IndexOf(h1, key) + 1]
      target_bucket == h1.buckets[ref]
      S == {i \in 1..Len(target_bucket.list_) : target_bucket.list_[i][1] = key}
  IN IF S # {}
     THEN [h1 EXCEPT !.buckets[ref].list_[MinOf(S)] = <<key, value>>]
     ELSE [h1 EXCEPT !.buckets[ref] =
                        BucketInsert(target_bucket, h1.bucket_size_, key, value)]

\* every <<key, value>> stored in a bucket of the table
HashTableEntries(h) ==
  UNION {{h.buckets[ref].list_[i] : i \in 1..Len(h.buckets[ref].list_)} :
           ref \in DOMAIN h.buckets}

(***************************************************************************)
(* LRUKReplacer                                                            *)
(*   r.replacer_size_, r.k_, r.curr_size_                                  *)
(*   r.lru_list_         : frames with fewer than k_ accesses              *)
(*   r.lru_k_list_       : frames with at least k_ accesses                *)
(*   r.access_count_map_ : frame -> number of accesses                     *)
(*   r.is_evictable_map  : frame -> evictable flag                         *)
(***************************************************************************)
ReplacerInit(num_frames, k) ==
  [replacer_size_ |-> num_frames, k_ |-> k, curr_size_ |-> 0,
   lru_list_ |-> <<>>, lru_k_list_ |-> <<>>,
   access_count_map_ |-> EmptyMap, is_evictable_map |-> EmptyMap]

\* position of the first element of list whose flag is set, 0 if there is none
FirstEvictable(list, flags) ==
  LET S == {i \in 1..Len(list) : MapAt(flags, list[i], FALSE)}
  IN IF S = {} THEN 0 ELSE MinOf(S)

\* is_evictable_map[*p] inserts a false flag for every visited frame that has
\* none: the walk visits list[1..n]
RECURSIVE TouchVisited(_, _, _)
TouchVisited(flags, list, n) ==
  IF n = 0 THEN flags
  ELSE MapTouch(TouchVisited(flags, list, n - 1), list[n], FALSE)

\* Evict: [ok, frame_id, r]; frame_id is not written when ok is FALSE
Evict(r) ==
  IF r.curr_size_ = 0 THEN [ok |-> FALSE, frame_id |-> -1, r |-> r]
  ELSE
    LET i == FirstEvictable(r.lru_list_, r.is_evictable_map)
        flags1 == TouchVisited(r.is_evictable_map, r.lru_list_,
                               IF i = 0 THEN Len(r.lru_list_) ELSE i)
        j == FirstEvictable(r.lru_k_list_, flags1)
        flags2 == TouchVisited(flags1, r.lru_k_list_,
                               IF j = 0 THEN Len(r.lru_k_list_) ELSE j)
    IN IF i # 0
       THEN [ok |-> TRUE, frame_id |-> r.lru_list_[i],
             r |-> [r EXCEPT
                      !.access_count_map_ = MapErase(@, r.lru_list_[i]),
                      !.is_evictable_map = MapErase(flags1, r.lru_list_[i]),
                      !.lru_list_ = ListEraseAt(@, i),
                      !.curr_size_ = SizeDec(@)]]
       ELSE IF j # 0
       THEN [ok |-> TRUE, frame_id |-> r.lru_k_list_[j],
             r |-> [r EXCEPT
                      !.access_count_map_ = MapErase(@, r.lru_k_list_[j]),
                      !.is_evictable_map = MapErase(flags2, r.lru_k_list_[j]),
                      !.lru_k_list_ = ListEraseAt(@, j),
                      !.curr_size_ = SizeDec(@)]]
       ELSE [ok |-> FALSE, frame_id |-> -1,
             r |-> [r EXCEPT !.is_evictable_map = flags2]]

\* the range check shared by RecordAccess, SetEvictable and Remove
ReplacerThrows(r, frame_id) == frame_id > r.replacer_size_

\* RecordAccess when the range check passes
RecordAccess(r, frame_id) ==
  LET count == SizeInc(MapAt(r.access_count_map_, frame_id, 0))
      r1 == [r EXCEPT !.access_count_map_ = MapPut(@, frame_id, count)]
  IN IF count = 1
     THEN [r1 EXCEPT !.lru_list_ = Append(@, frame_id)]
     ELSE IF count < r.k_
     THEN [r1 EXCEPT !.lru_list_ = Append(ListRemove(@, frame_id), frame_id)]
     ELSE IF count = r.k_
     THEN [r1 EXCEPT !.lru_list_ = ListRemove(@, frame_id),
                     !.lru_k_list_ = Append(@, frame_id)]
     ELSE [r1 EXCEPT !.lru_k_list_ = Append(ListRemove(@, frame_id), frame_id)]

\* SetEvictable without the second if statement (false -> true)
SetEvictable_NoRaise(r, frame_id, set_evictable) ==
  LET r1 == IF frame_id \notin DOMAIN r.is_evictable_map
            THEN [r EXCEPT
                    !.is_evictable_map = MapPut(@, frame_id, set_evictable),
                    !.curr_size_ = IF set_evictable THEN SizeInc(@) ELSE @]
            ELSE r
  IN IF r1.is_evictable_map[frame_id] /\ ~set_evictable
     THEN [r1 EXCEPT !.is_evictable_map[frame_id] = FALSE,
                     !.curr_size_ = SizeDec(@)]
     ELSE r1

\* SetEvictable when the range check passes: the three if statements in turn
SetEvictable(r, frame_id, set_evictable) ==
  LET r1 == IF frame_id \notin DOMAIN r.is_evictable_map
            THEN [r EXCEPT
                    !.is_evictable_map = MapPut(@, frame_id, set_evictable),
                    !.curr_size_ = IF set_evictable THEN SizeInc(@) ELSE @]
            ELSE r
      r2 == IF ~r1.is_evictable_map[frame_id] /\ set_evictable
            THEN [r1 EXCEPT !.is_evictable_map[frame_id] = TRUE,
                            !.curr_size_ = SizeInc(@)]
            ELSE r1
  IN IF r2.is_evictable_map[frame_id] /\ ~set_evictable
     THEN [r2 EXCEPT !.is_evictable_map[frame_id] = FALSE,
                     !.curr_size_ = SizeDec(@)]
     ELSE r2

\* Remove when the range check passes
ReplacerRemove(r, frame_id) ==
  LET r1 == [r EXCEPT !.is_evictable_map = MapTouch(@, frame_id, FALSE)]
  IN IF ~r1.is_evictable_map[frame_id] THEN r1
     ELSE
       LET access_count == MapAt(r1.access_count_map_, frame_id, 0)
           r2 == IF access_count < r1.k_
                 THEN [r1 EXCEPT !.lru_list_ = ListRemove(@, frame_id)]
                 ELSE [r1 EXCEPT !.lru_k_list_ = ListRemove(@, frame_id)]
           count == SizeDec(access_count)
       IN [r2 EXCEPT
             !.access_count_map_ = IF count = 0 THEN MapErase(@, frame_id)
                                   ELSE MapPut(@, frame_id, count),
             !.curr_size_ = SizeDec(@)]

ReplacerSize(r) == r.curr_size_

(***************************************************************************)
(* BufferPoolManagerInstance                                               *)
(***************************************************************************)
VARIABLES
  pages_,         \* frame -> [page_id_, pin_count_, is_dirty_, data_]
  free_list_,     \* sequence of frame ids
  page_table_,    \* ExtendibleHashTable<page_id_t, frame_id_t>
  replacer_,      \* LRUKReplacer
  next_page_id_,  \* next id AllocatePage hands out
  disk,           \* disk manager: page id -> image last written
  status,         \* "running", "fault" (out-of-bounds frame access) or
                  \* "hung" (thread blocked for ever holding latch_)
  call,           \* the last call: [name, page_id, is_dirty]
  ret,            \* its result: [kind, frame]
  writes,         \* the WritePage calls it issued, in order: <<page_id, image>>
  latest,         \* page id -> image at its last dirty unpin or flush
  owner,          \* the thread that holds latch_ of the buffer pool, 0 if none
  pc,             \* thread -> "idle", "wait" (blocked in lock_guard),
                  \* "body" (inside an operation, holding latch_) or
                  \* "relock" (blocked in lock_guard on the latch_ it holds)
  table,          \* an ExtendibleHashTable<int, int> used on its own
  map,            \* the key -> value map a std::map would hold after the
                  \* same calls
  lru,            \* an LRUKReplacer used on its own
  hist,           \* tracked frame -> times of its accesses since it was
                  \* last absent
  clock           \* number of accesses recorded so far

pool_vars == <<pages_, free_list_, page_table_, replacer_, next_page_id_, disk,
               writes, latest>>
latch_vars == <<owner, pc>>
hash_vars == <<table, map>>
lru_vars == <<lru, hist, clock>>

vars == <<pages_, free_list_, page_table_, replacer_, next_page_id_, disk,
          status, call, ret, writes, latest, owner, pc, table, map, lru, hist,
          clock>>

FreePage ==
  [page_id_ |-> INVALID_PAGE_ID, pin_count_ |-> 0, is_dirty_ |-> FALSE,
   data_ |-> ZeroImage]

\* the constructor's loop stopping one frame short
InitFreeList_Short == [i \in 1..(PoolSize - 1) |-> i - 1]

InitFreeList == [i \in 1..PoolSize |-> i - 1]

\* the buffer pool after its constructor
PoolInit ==
  /\ pages_ = [f \in Frames |-> FreePage]
  /\ free_list_ = InitFreeList
  /\ page_table_ = HashTableInit(BucketSize)
  /\ replacer_ = ReplacerInit(PoolSize, ReplacerK)
  /\ next_page_id_ = 0
  /\ disk = [p \in PageIds |-> ZeroImage]
  /\ status = "running"
  /\ call = [name |-> "Construct", page_id |-> INVALID_PAGE_ID, is_dirty |-> FALSE]
  /\ ret = [kind |-> "void", frame |-> -1]
  /\ writes = <<>>
  /\ latest = [p \in PageIds |-> ZeroImage]

Init ==
  /\ PoolInit
  /\ owner = 0
  /\ pc = [t \in Threads |-> "idle"]
  /\ table = HashTableInit(BucketSize)
  /\ map = EmptyMap
  /\ lru = ReplacerInit(PoolSize, ReplacerK)
  /\ hist = EmptyMap
  /\ clock = 0

Call(name, page_id, is_dirty) ==
  [name |-> name, page_id |-> page_id, is_dirty |-> is_dirty]
Ret(kind, frame) == [kind |-> kind, frame |-> frame]

\* the scan for a frame with pin count 0 in NewPgImp and FetchPgImp
HasAvailFrame == \E i \in Frames : pages_[i].pin_count_ = 0

\* write-back that skips the WritePage call
WriteBack_Never(page) == <<>>

\* write-back that ignores the dirty flag
WriteBack_Always(page) == <<(<<page.page_id_, page.data_>>)>>

\* write-back of a frame that is given up: the WritePage calls issued
WriteBack(page) ==
  IF page.is_dirty_ THEN <<(<<page.page_id_, page.data_>>)>> ELSE <<>>

RECURSIVE DiskAfter(_, _)
DiskAfter(d, ws) ==
  IF ws = <<>> THEN d
  ELSE DiskAfter([d EXCEPT ![Head(ws)[1]] = Head(ws)[2]], Tail(ws))

\* the values an int that was never assigned can hold: a frame id, or
\* (PoolSize stands for all of them) an index outside pages_
UninitFrameIds == 0..PoolSize

\* "Make room for the new page": the possible outcomes of the if/else that
\* chooses frame_id. An outcome with fault set indexes pages_ out of bounds.
MakeRoom ==
  IF free_list_ # <<>>
  THEN {[fault |-> FALSE, frame_id |-> Head(free_list_),
         free_list |-> Tail(free_list_), replacer |-> replacer_,
         page_table |-> page_table_, page |-> pages_[Head(free_list_)],
         writes |-> <<>>]}
  ELSE
    LET e == Evict(replacer_)
    IN {IF frame_id \notin Frames
        THEN [fault |-> TRUE, frame_id |-> frame_id, free_list |-> free_list_,
              replacer |-> e.r, page_table |-> page_table_, page |-> FreePage,
              writes |-> <<>>]
        ELSE [fault |-> FALSE, frame_id |-> frame_id, free_list |-> free_list_,
              replacer |-> e.r,
              page_table |-> HashTableRemove(page_table_,
                                             pages_[frame_id].page_id_).h,
              page |-> [pages_[frame_id] EXCEPT !.is_dirty_ = FALSE,
                                                !.data_ = ZeroImage],
              writes |-> WriteBack(pages_[frame_id])]
        : frame_id \in (IF e.ok THEN {e.frame_id} ELSE UninitFrameIds)}

\* the bound on access counts
CanAccess(r, frame_id) == MapAt(r.access_count_map_, frame_id, 0) < MaxAccess

\* the bound on the distance between curr_size_ and the evictable flags
Signed(x) == IF x >= SizeMod \div 2 THEN x - SizeMod ELSE x
Drift(r) ==
  Cardinality({f \in DOMAIN r.is_evictable_map : r.is_evictable_map[f]})
    - Signed(r.curr_size_)

Faulted(name, page_id, r) ==
  /\ status' = "fault"
  /\ call' = Call(name, page_id, FALSE)
  /\ ret' = Ret("fault", -1)
  /\ replacer_' = r
  /\ writes' = <<>>
  /\ UNCHANGED <<pages_, free_list_, page_table_, disk, latest>>

\* AllocatePage that hands the same id out again
AllocatePage_Reuse(next) == [page_id |-> next, next_page_id_ |-> next]

\* AllocatePage: return next_page_id_++
AllocatePage(next) == [page_id |-> next, next_page_id_ |-> next + 1]

NewPgImp ==
  /\ status = "running"
  /\ IF ~HasAvailFrame
     THEN /\ call' = Call("NewPage", INVALID_PAGE_ID, FALSE)
          /\ ret' = Ret("null", -1)
          /\ writes' = <<>>
          /\ UNCHANGED <<pages_, free_list_, page_table_, replacer_,
                         next_page_id_, disk, status, latest>>
     ELSE
       \E o \in MakeRoom :
         LET page_id == AllocatePage(next_page_id_).page_id IN
         /\ next_page_id_ < MaxPageId
         /\ next_page_id_' = AllocatePage(next_page_id_).next_page_id_
         /\ IF o.fault THEN Faulted("NewPage", page_id, o.replacer)
            ELSE
              /\ CanAccess(o.replacer, o.frame_id)
              /\ free_list_' = o.free_list
              /\ page_table_' = HashTableInsert(o.page_table, page_id, o.frame_id)
              /\ pages_' = [pages_ EXCEPT ![o.frame_id] =
                              [o.page EXCEPT !.page_id_ = page_id,
                                             !.pin_count_ = 1]]
              /\ replacer_' = SetEvictable(RecordAccess(o.replacer, o.frame_id),
                                           o.frame_id, FALSE)
              /\ disk' = DiskAfter(disk, o.writes)
              /\ writes' = o.writes
              /\ call' = Call("NewPage", page_id, FALSE)
              /\ ret' = Ret("handle", o.frame_id)
              /\ UNCHANGED <<status, latest>>

FetchPgImp(page_id) ==
  /\ status = "running"
  /\ LET hit == HashTableFind(page_table_, page_id) IN
     IF hit.found
     THEN /\ pages_[hit.value].pin_count_ < MaxPin
          /\ CanAccess(replacer_, hit.value)
          /\ pages_' = [pages_ EXCEPT ![hit.value].pin_count_ = @ + 1]
          /\ replacer_' = SetEvictable(RecordAccess(replacer_, hit.value),
                                       hit.value, FALSE)
          /\ call' = Call("FetchPage", page_id, FALSE)
          /\ ret' = Ret("handle", hit.value)
          /\ writes' = <<>>
          /\ UNCHANGED <<free_list_, page_table_, next_page_id_, disk, status,
                         latest>>
     ELSE IF ~HasAvailFrame
     THEN /\ call' = Call("FetchPage", page_id, FALSE)
          /\ ret' = Ret("null", -1)
          /\ writes' = <<>>
          /\ UNCHANGED <<pages_, free_list_, page_table_, replacer_,
                         next_page_id_, disk, status, latest>>
     ELSE
       \E o \in MakeRoom :
         /\ UNCHANGED next_page_id_
         /\ IF o.fault THEN Faulted("FetchPage", page_id, o.replacer)
            ELSE
              /\ CanAccess(o.replacer, o.frame_id)
              /\ free_list_' = o.free_list
              /\ page_table_' = HashTableInsert(o.page_table, page_id, o.frame_id)
              /\ disk' = DiskAfter(disk, o.writes)
              /\ pages_' = [pages_ EXCEPT ![o.frame_id] =
                              [o.page EXCEPT !.page_id_ = page_id,
                                             !.pin_count_ = 1,
                                             !.data_ = disk'[page_id]]]
              /\ replacer_' = SetEvictable(RecordAccess(o.replacer, o.frame_id),
                                           o.frame_id, FALSE)
              /\ writes' = o.writes
              /\ call' = Call("FetchPage", page_id, FALSE)
              /\ ret' = Ret("handle", o.frame_id)
              /\ UNCHANGED <<status, latest>>

\* the result that returns without touching the pool
Refused(name, page_id, is_dirty, kind) ==
  /\ call' = Call(name, page_id, is_dirty)
  /\ ret' = Ret(kind, -1)
  /\ writes' = <<>>
  /\ UNCHANGED <<pages_, free_list_, page_table_, replacer_, next_page_id_,
                 disk, status, latest>>

\* "is_dirty_ = is_dirty" without the if
DirtyAfterUnpin_Assign(was_dirty, is_dirty) == is_dirty

\* "if (is_dirty) is_dirty_ = is_dirty"
DirtyAfterUnpin(was_dirty, is_dirty) == IF is_dirty THEN TRUE ELSE was_dirty

\* "pin_count_ = 0" in place of "pin_count_--"
PinAfterUnpin_Zero(pin_count) == 0

\* the pin count after "pin_count_--"
PinAfterUnpin(pin_count) == pin_count - 1

\* UnpinPgImp. A caller that unpins with is_dirty has written the image
\* bytes through its handle while it held the pin.
UnpinPgImp(page_id, is_dirty, bytes) ==
  /\ status = "running"
  /\ LET hit == HashTableFind(page_table_, page_id) IN
     IF ~hit.found THEN Refused("UnpinPage", page_id, is_dirty, "false")
     ELSE IF pages_[hit.value].pin_count_ = 0
     THEN Refused("UnpinPage", page_id, is_dirty, "false")
     ELSE
       LET frame_id == hit.value
           pin == PinAfterUnpin(pages_[frame_id].pin_count_)
       IN /\ pages_' = [pages_ EXCEPT
                          ![frame_id].data_ = IF is_dirty THEN bytes ELSE @,
                          ![frame_id].is_dirty_ = DirtyAfterUnpin(@, is_dirty),
                          ![frame_id].pin_count_ = pin]
          /\ replacer_' = IF pin = 0
                          THEN SetEvictable(replacer_, frame_id, TRUE)
                          ELSE replacer_
          /\ latest' = IF is_dirty THEN [latest EXCEPT ![page_id] = bytes]
                       ELSE latest
          /\ call' = Call("UnpinPage", page_id, is_dirty)
          /\ ret' = Ret("true", frame_id)
          /\ writes' = <<>>
          /\ UNCHANGED <<free_list_, page_table_, next_page_id_, disk, status>>

\* FlushPgImp that leaves the dirty flag as it was
FlushedPage_KeepsDirty(page) == page

\* the frame after FlushPgImp has written it
FlushedPage(page) == [page EXCEPT !.is_dirty_ = FALSE]

FlushPgImp(page_id) ==
  /\ status = "running"
  /\ LET hit == HashTableFind(page_table_, page_id) IN
     IF ~hit.found THEN Refused("FlushPage", page_id, FALSE, "false")
     ELSE
       LET frame_id == hit.value
           ws == <<(<<page_id, pages_[frame_id].data_>>)>>
       IN /\ disk' = DiskAfter(disk, ws)
          /\ writes' = ws
          /\ pages_' = [pages_ EXCEPT ![frame_id] = FlushedPage(@)]
          /\ latest' = [latest EXCEPT ![page_id] = pages_[frame_id].data_]
          /\ call' = Call("FlushPage", page_id, FALSE)
          /\ ret' = Ret("true", frame_id)
          /\ UNCHANGED <<free_list_, page_table_, replacer_, next_page_id_,
                         status>>

\* FlushAllPgsImp holds latch_ and calls FlushPgImp for the first resident
\* frame, which locks latch_ again: the thread blocks on its own std::mutex.
FlushAllPgsImp ==
  /\ status = "running"
  /\ IF \E i \in Frames : pages_[i].page_id_ # INVALID_PAGE_ID
     THEN /\ status' = "hung"
          /\ call' = Call("FlushAllPages", INVALID_PAGE_ID, FALSE)
          /\ ret' = Ret("hung", -1)
          /\ writes' = <<>>
          /\ UNCHANGED <<pages_, free_list_, page_table_, replacer_,
                         next_page_id_, disk, latest>>
     ELSE Refused("FlushAllPages", INVALID_PAGE_ID, FALSE, "void")

\* DeletePgImp that leaves page_id_ in the frame
DeletedPage_KeepsId(page) ==
  [page EXCEPT !.is_dirty_ = FALSE, !.pin_count_ = 0, !.data_ = ZeroImage]

\* the frame after DeletePgImp has cleared it
DeletedPage(page) ==
  [page EXCEPT !.is_dirty_ = FALSE, !.page_id_ = INVALID_PAGE_ID,
               !.pin_count_ = 0, !.data_ = ZeroImage]

DeletePgImp(page_id) ==
  /\ status = "running"
  /\ LET hit == HashTableFind(page_table_, page_id) IN
     IF ~hit.found THEN Refused("DeletePage", page_id, FALSE, "true")
     ELSE IF pages_[hit.value].pin_count_ > 0
     THEN Refused("DeletePage", page_id, FALSE, "false")
     ELSE
       LET frame_id == hit.value
           ws == WriteBack(pages_[frame_id])
       IN /\ Drift(replacer_) < MaxDrift
          /\ disk' = DiskAfter(disk, ws)
          /\ writes' = ws
          /\ pages_' = [pages_ EXCEPT ![frame_id] = DeletedPage(@)]
          /\ free_list_' = Append(free_list_, frame_id)
          /\ page_table_' = HashTableRemove(page_table_, page_id).h
          /\ replacer_' = ReplacerRemove(replacer_, frame_id)
          /\ call' = Call("DeletePage", page_id, FALSE)
          /\ ret' = Ret("true", frame_id)
          /\ UNCHANGED <<next_page_id_, status, latest>>

\* pages that exist: the ids AllocatePage has handed out
Allocated == 0..(next_page_id_ - 1)

\* The buffer pool used by one thread at a time: every operation holds latch_
\* from its first statement to its return.
Next ==
  \/ NewPgImp /\ UNCHANGED <<latch_vars, hash_vars, lru_vars>>
  \/ \E page_id \in Allocated :
       FetchPgImp(page_id) /\ UNCHANGED <<latch_vars, hash_vars, lru_vars>>
  \/ \E page_id \in Allocated, is_dirty \in BOOLEAN, bytes \in Data :
       UnpinPgImp(page_id, is_dirty, bytes)
         /\ UNCHANGED <<latch_vars, hash_vars, lru_vars>>
  \/ \E page_id \in Allocated :
       FlushPgImp(page_id) /\ UNCHANGED <<latch_vars, hash_vars, lru_vars>>
  \/ FlushAllPgsImp /\ UNCHANGED <<latch_vars, hash_vars, lru_vars>>
  \/ \E page_id \in Allocated :
       DeletePgImp(page_id) /\ UNCHANGED <<latch_vars, hash_vars, lru_vars>>

Spec == Init /\ [][Next]_vars

(***************************************************************************)
(* The buffer pool called by several threads.  Every operation opens with  *)
(* std::lock_guard<std::mutex> lock(latch_) and holds it to its return, so *)
(* a thread is outside a call, blocked in the lock_guard, or inside the    *)
(* body with the latch.  The latches of page_table_ and replacer_ are      *)
(* taken and released inside single calls made from the body.  Pages are   *)
(* unpinned clean here: page images play no part in the locking.           *)
(***************************************************************************)
\* a thread calls an operation and reaches its lock_guard
Enter(t) ==
  /\ pc[t] = "idle"
  /\ pc' = [pc EXCEPT ![t] = "wait"]
  /\ UNCHANGED <<pool_vars, status, call, ret, owner, hash_vars, lru_vars>>

\* std::mutex::lock returns once no thread holds latch_
Lock(t) ==
  /\ pc[t] = "wait"
  /\ owner = 0
  /\ owner' = t
  /\ pc' = [pc EXCEPT ![t] = "body"]
  /\ UNCHANGED <<pool_vars, status, call, ret, hash_vars, lru_vars>>

\* the body of an operation, then the lock_guard's destructor; a thread that
\* reaches the lock_guard of FlushPgImp inside FlushAllPgsImp blocks on the
\* latch_ it holds, and a thread that faults never releases it
Body(t, op) ==
  /\ pc[t] = "body"
  /\ op
  /\ pc' = [pc EXCEPT ![t] = IF status' = "hung" THEN "relock"
                             ELSE IF status' = "fault" THEN "body"
                             ELSE "idle"]
  /\ owner' = IF status' = "running" THEN 0 ELSE owner
  /\ UNCHANGED <<hash_vars, lru_vars>>

LatchNext ==
  \/ \E t \in Threads : Enter(t)
  \/ \E t \in Threads : Lock(t)
  \/ \E t \in Threads : Body(t, NewPgImp)
  \/ \E t \in Threads, page_id \in Allocated : Body(t, FetchPgImp(page_id))
  \/ \E t \in Threads, page_id \in Allocated :
       Body(t, UnpinPgImp(page_id, FALSE, ZeroImage))
  \/ \E t \in Threads, page_id \in Allocated : Body(t, FlushPgImp(page_id))
  \/ \E t \in Threads : Body(t, FlushAllPgsImp)
  \/ \E t \in Threads, page_id \in Allocated : Body(t, DeletePgImp(page_id))

LatchSpec == Init /\ [][LatchNext]_vars

(***************************************************************************)
(* ExtendibleHashTable<int, int> on its own: Insert, Remove and Find on a  *)
(* table constructed with a bucket_size of 1..MaxBucketSize; map is what   *)
(* std::map holds after the same calls.                                    *)
(***************************************************************************)
HashInit ==
  /\ PoolInit
  /\ owner = 0
  /\ pc = [t \in Threads |-> "idle"]
  /\ table \in {HashTableInit(bucket_size) : bucket_size \in 1..MaxBucketSize}
  /\ map = EmptyMap
  /\ lru = ReplacerInit(PoolSize, ReplacerK)
  /\ hist = EmptyMap
  /\ clock = 0

HashInsert(key, value) ==
  /\ status = "running"
  /\ call' = [name |-> "Insert", key |-> key, value |-> value]
  /\ map' = MapPut(map, key, value)
  /\ IF InsertExhausts(table, key)
     THEN /\ status' = "fault"
          /\ ret' = [kind |-> "bad_alloc"]
          /\ table' = table
     ELSE /\ status' = status
          /\ ret' = [kind |-> "void"]
          /\ table' = HashTableInsert(table, key, value)
  /\ UNCHANGED <<pool_vars, latch_vars, lru_vars>>

HashRemove(key) ==
  /\ status = "running"
  /\ call' = [name |-> "Remove", key |-> key]
  /\ ret' = [kind |-> "bool", found |-> HashTableRemove(table, key).found]
  /\ table' = HashTableRemove(table, key).h
  /\ map' = MapErase(map, key)
  /\ UNCHANGED <<pool_vars, status, latch_vars, lru_vars>>

HashFind(key) ==
  /\ status = "running"
  /\ call' = [name |-> "Find", key |-> key]
  /\ ret' = [kind |-> "bool", found |-> HashTableFind(table, key).found,
             value |-> HashTableFind(table, key).value]
  /\ UNCHANGED <<pool_vars, status, latch_vars, hash_vars, lru_vars>>

HashNext ==
  \/ \E key \in Keys, value \in Values : HashInsert(key, value)
  \/ \E key \in Keys : HashRemove(key)
  \/ \E key \in Keys : HashFind(key)

HashSpec == HashInit /\ [][HashNext]_vars

(***************************************************************************)
(* LRUKReplacer on its own: RecordAccess, SetEvictable, Evict, Remove and  *)
(* Size on a replacer constructed with num_frames = PoolSize and a k of    *)
(* 1..MaxK.  hist keeps, for every frame that is tracked (an access or a   *)
(* SetEvictable since it was last evicted or removed), the times of its    *)
(* accesses.                                                               *)
(***************************************************************************)
LruInit ==
  /\ PoolInit
  /\ owner = 0
  /\ pc = [t \in Threads |-> "idle"]
  /\ table = HashTableInit(BucketSize)
  /\ map = EmptyMap
  /\ lru \in {ReplacerInit(PoolSize, k) : k \in 1..MaxK}
  /\ hist = EmptyMap
  /\ clock = 0

LruCall(name, frame_id, set_evictable) ==
  [name |-> name, frame_id |-> frame_id, set_evictable |-> set_evictable]

\* throw std::exception() of the range check: nothing else happens
LruThrows(name, frame_id, set_evictable) ==
  /\ call' = LruCall(name, frame_id, set_evictable)
  /\ ret' = [kind |-> "throw"]
  /\ UNCHANGED <<pool_vars, status, latch_vars, hash_vars, lru_vars>>

LruRecordAccess(frame_id) ==
  /\ clock < MaxClock
  /\ IF ReplacerThrows(lru, frame_id)
     THEN LruThrows("RecordAccess", frame_id, FALSE)
     ELSE /\ lru' = RecordAccess(lru, frame_id)
          /\ clock' = clock + 1
          /\ hist' = MapPut(hist, frame_id,
                            Append(MapAt(hist, frame_id, <<>>), clock + 1))
          /\ call' = LruCall("RecordAccess", frame_id, FALSE)
          /\ ret' = [kind |-> "void"]
          /\ UNCHANGED <<pool_vars, status, latch_vars, hash_vars>>

LruSetEvictable(frame_id, set_evictable) ==
  IF ReplacerThrows(lru, frame_id)
  THEN LruThrows("SetEvictable", frame_id, set_evictable)
  ELSE /\ lru' = SetEvictable(lru, frame_id, set_evictable)
       /\ hist' = MapTouch(hist, frame_id, <<>>)
       /\ call' = LruCall("SetEvictable", frame_id, set_evictable)
       /\ ret' = [kind |-> "void"]
       /\ UNCHANGED <<pool_vars, status, latch_vars, hash_vars, clock>>

LruEvict ==
  LET res == Evict(lru) IN
  /\ lru' = res.r
  /\ hist' = IF res.ok THEN MapErase(hist, res.frame_id) ELSE hist
  /\ call' = LruCall("Evict", -1, FALSE)
  /\ ret' = [kind |-> "bool", ok |-> res.ok, frame_id |-> res.frame_id]
  /\ UNCHANGED <<pool_vars, status, latch_vars, hash_vars, clock>>

LruRemove(frame_id) ==
  IF ReplacerThrows(lru, frame_id)
  THEN LruThrows("Remove", frame_id, FALSE)
  ELSE /\ MapAt(lru.is_evictable_map, frame_id, FALSE) => Drift(lru) < MaxDrift
       /\ lru' = ReplacerRemove(lru, frame_id)
       /\ hist' = IF MapAt(lru.is_evictable_map, frame_id, FALSE)
                  THEN MapErase(hist, frame_id) ELSE hist
       /\ call' = LruCall("Remove", frame_id, FALSE)
       /\ ret' = [kind |-> "void"]
       /\ UNCHANGED <<pool_vars, status, latch_vars, hash_vars, clock>>

LruSize ==
  /\ call' = LruCall("Size", -1, FALSE)
  /\ ret' = [kind |-> "size", size |-> ReplacerSize(lru)]
  /\ UNCHANGED <<pool_vars, status, latch_vars, hash_vars, lru_vars>>

LruNext ==
  \/ \E frame_id \in FrameIds : LruRecordAccess(frame_id)
  \/ \E frame_id \in FrameIds, set_evictable \in BOOLEAN :
       LruSetEvictable(frame_id, set_evictable)
  \/ LruEvict
  \/ \E frame_id \in FrameIds : LruRemove(frame_id)
  \/ LruSize

LruSpec == LruInit /\ [][LruNext]_vars

(***************************************************************************)
(* Properties                                                              *)
(***************************************************************************)
Resident(f) == pages_[f].page_id_ # INVALID_PAGE_ID
ResidentFrames == {f \in Frames : Resident(f)}
AllPinned == \A f \in Frames : pages_[f].pin_count_ > 0
InPageTable(page_id) == HashTableFind(page_table_, page_id).found
FrameOf(page_id) == HashTableFind(page_table_, page_id).value
EvictableFlag(f) == MapAt(replacer_.is_evictable_map, f, FALSE)
pool == <<pages_, free_list_, page_table_, replacer_, next_page_id_, disk>>

\* C1: a frame whose pin count is > 0 keeps its page id, and its bytes change
\* only by a write of a caller that holds the pin; no step reuses it.
C1_PinnedFrameKept ==
  [][\A f \in Frames :
       pages_[f].pin_count_ > 0 =>
         /\ pages_'[f].page_id_ = pages_[f].page_id_
         /\ \/ pages_'[f].data_ = pages_[f].data_
            \/ /\ call'.name = "UnpinPage" /\ call'.is_dirty
               /\ call'.page_id = pages_[f].page_id_]_vars

\* C2: a handle returned by FetchPage holds the requested page, and its bytes
\* are the image the page had at its last dirty unpin or flush.
C2_FetchReturnsLatest ==
  (call.name = "FetchPage" /\ ret.kind = "handle") =>
     /\ pages_[ret.frame].page_id_ = call.page_id
     /\ pages_[ret.frame].data_ = latest[call.page_id]

\* C2 witness: a miss that wrote a dirty victim back and read back an image
\* that an earlier dirty unpin had left on a page evicted since.
C2_Witness ==
  /\ call.name = "FetchPage" /\ ret.kind = "handle"
  /\ writes # <<>>
  /\ pages_[ret.frame].data_ # ZeroImage

\* C3: NewPage, and FetchPage of a page that is not resident, return null
\* exactly when every frame is pinned, and otherwise a handle to a frame of
\* the pool whose pin count is 1.
C3_NullIffAllPinned ==
  [][((call'.name = "NewPage")
        \/ (call'.name = "FetchPage" /\ ~InPageTable(call'.page_id))) =>
       /\ (ret'.kind = "null") <=> AllPinned
       /\ ~AllPinned => /\ ret'.kind = "handle"
                        /\ ret'.frame \in Frames
                        /\ pages_'[ret'.frame].pin_count_ = 1]_vars

\* C4 as stated: for every frame, pin count 0 iff its evictable flag is set.
C4_PinZeroIffEvictable ==
  \A f \in Frames : (pages_[f].pin_count_ = 0) <=> EvictableFlag(f)

\* C4 as amended: for every resident frame, pin count 0 iff its evictable
\* flag is set.
C4_ResidentPinZeroIffEvictable ==
  \A f \in ResidentFrames : (pages_[f].pin_count_ = 0) <=> EvictableFlag(f)

\* C4 witness: after an unpin, a resident frame at pin count 0 with its flag
\* set next to a resident pinned frame.
C4_Witness ==
  /\ call.name = "UnpinPage" /\ ret.kind = "true"
  /\ \E f, g \in ResidentFrames :
       /\ pages_[f].pin_count_ = 0 /\ EvictableFlag(f)
       /\ pages_[g].pin_count_ > 0 /\ ~EvictableFlag(g)

\* C5: a NewPage or FetchPage miss that finds the free list empty and reuses
\* a frame issues WritePage(victim id, victim bytes) exactly when the victim
\* was dirty; afterwards the victim's id is not in the page table and the
\* frame is clean.
C5_WriteBackIffDirty ==
  [][(/\ (call'.name = "NewPage")
           \/ (call'.name = "FetchPage" /\ ~InPageTable(call'.page_id))
      /\ free_list_ = <<>>
      /\ ret'.kind = "handle") =>
       LET victim == pages_[ret'.frame] IN
       /\ writes' = IF victim.is_dirty_
                    THEN <<(<<victim.page_id_, victim.data_>>)>> ELSE <<>>
       /\ ~HashTableFind(page_table_', victim.page_id_).found
       /\ ~pages_'[ret'.frame].is_dirty_]_vars

\* C5 witness: a miss has just written a dirty victim back.
C5_Witness ==
  /\ call.name \in {"NewPage", "FetchPage"} /\ ret.kind = "handle"
  /\ writes # <<>>
  /\ free_list_ = <<>>

\* C6: the page table holds exactly the entries page_id -> frame of the
\* resident frames, each once; no page id is held by two frames.
C6_PageTableExact ==
  /\ \A f \in ResidentFrames :
       InPageTable(pages_[f].page_id_) /\ FrameOf(pages_[f].page_id_) = f
  /\ HashTableEntries(page_table_) =
       {<<pages_[f].page_id_, f>> : f \in ResidentFrames}
  /\ \A ref \in DOMAIN page_table_.buckets :
       \A i, j \in 1..Len(page_table_.buckets[ref].list_) :
         i # j => page_table_.buckets[ref].list_[i] # page_table_.buckets[ref].list_[j]
  /\ \A f, g \in ResidentFrames :
       pages_[f].page_id_ = pages_[g].page_id_ => f = g
  /\ \A id \in PageIds :
       InPageTable(id) => pages_[FrameOf(id)].page_id_ = id

\* C6 witness: after a delete that followed a bucket split, a page is still
\* resident and another one is gone.
C6_Witness ==
  /\ call.name = "DeletePage" /\ ret.kind = "true" /\ ret.frame \in Frames
  /\ page_table_.global_depth_ >= 1
  /\ ResidentFrames # {}

\* C7: every frame is on the free list exactly once or resident in the page
\* table, never both and never neither.
C7_FreeListPartition ==
  /\ \A i, j \in 1..Len(free_list_) : i # j => free_list_[i] # free_list_[j]
  /\ \A f \in Frames :
       (\E i \in 1..Len(free_list_) : free_list_[i] = f)
         <=> ~(\E e \in HashTableEntries(page_table_) : e[2] = f)
  /\ \A i \in 1..Len(free_list_) : free_list_[i] \in Frames

\* C7 witness: a deleted frame is back on the free list while another frame
\* is resident.
C7_Witness ==
  /\ call.name = "DeletePage" /\ ret.kind = "true"
  /\ free_list_ = <<ret.frame>>
  /\ ResidentFrames # {}

\* C8: a dirty flag is cleared only by a step that writes the frame's bytes
\* to disk under its page id; UnpinPage(id, false) clears none; a dirty frame
\* is resident.
C8_StickyDirty ==
  /\ [](\A f \in Frames : pages_[f].is_dirty_ => Resident(f))
  /\ [][/\ \A f \in Frames :
             (pages_[f].is_dirty_ /\ ~pages_'[f].is_dirty_) =>
               /\ call'.name \in {"FlushPage", "NewPage", "FetchPage", "DeletePage"}
               /\ \E i \in 1..Len(writes') :
                    writes'[i] = <<pages_[f].page_id_, pages_[f].data_>>
               /\ disk'[pages_[f].page_id_] = pages_[f].data_
        /\ (call'.name = "UnpinPage" /\ ~call'.is_dirty) =>
             \A f \in Frames : pages_[f].is_dirty_ => pages_'[f].is_dirty_]_vars

\* C8 witness: UnpinPage(id, false) has returned true on a frame that is
\* still dirty.
C8_Witness ==
  /\ call.name = "UnpinPage" /\ ~call.is_dirty /\ ret.kind = "true"
  /\ pages_[ret.frame].is_dirty_

\* C9: UnpinPage returns false and changes nothing when the page is not
\* resident or its pin count is 0; otherwise it returns true, lowers that pin
\* count by exactly 1 and sets the evictable flag exactly when it reaches 0.
C9_Unpin ==
  /\ [](\A f \in Frames : pages_[f].pin_count_ >= 0)
  /\ [][(call'.name = "UnpinPage") =>
          LET id == call'.page_id IN
          IF ~InPageTable(id) \/ pages_[FrameOf(id)].pin_count_ = 0
          THEN /\ ret'.kind = "false"
               /\ UNCHANGED pool
          ELSE /\ ret'.kind = "true"
               /\ pages_'[FrameOf(id)].pin_count_ = pages_[FrameOf(id)].pin_count_ - 1
               /\ \A f \in Frames \ {FrameOf(id)} : pages_'[f] = pages_[f]
               /\ MapAt(replacer_'.is_evictable_map, FrameOf(id), FALSE)
                    <=> pages_'[FrameOf(id)].pin_count_ = 0
               /\ UNCHANGED <<free_list_, page_table_>>]_vars

\* C9 witness: an unpin of a resident page whose pin count was already 0 has
\* returned false.
C9_Witness ==
  /\ call.name = "UnpinPage" /\ ret.kind = "false"
  /\ InPageTable(call.page_id)
  /\ pages_[FrameOf(call.page_id)].pin_count_ = 0

\* C10: DeletePage returns true and changes nothing when the page is not
\* resident, returns false and changes nothing when it is pinned, and
\* otherwise returns true, writes the page once iff it was dirty, removes it
\* from the page table, resets the frame and leaves it on the free list.
C10_Delete ==
  [][(call'.name = "DeletePage") =>
       LET id == call'.page_id
           f == FrameOf(id)
       IN IF ~InPageTable(id)
          THEN ret'.kind = "true" /\ writes' = <<>> /\ UNCHANGED pool
          ELSE IF pages_[f].pin_count_ > 0
          THEN ret'.kind = "false" /\ writes' = <<>> /\ UNCHANGED pool
          ELSE /\ ret'.kind = "true"
               /\ writes' = IF pages_[f].is_dirty_
                            THEN <<(<<id, pages_[f].data_>>)>> ELSE <<>>
               /\ ~HashTableFind(page_table_', id).found
               /\ pages_'[f] = FreePage
               /\ Cardinality({i \in 1..Len(free_list_') : free_list_'[i] = f}) = 1]_vars

\* C10 witness: a delete of a dirty unpinned page has returned true after
\* writing it back.
C10_Witness ==
  /\ call.name = "DeletePage" /\ ret.kind = "true"
  /\ writes # <<>>
  /\ ret.frame \in Frames /\ pages_[ret.frame] = FreePage

\* C11: FlushAllPages always returns, and when it has returned every frame
\* that was resident is clean and its bytes were written under its page id,
\* while pin counts, page table, free list and replacer are as before.
C11_FlushAllCompletes ==
  [][(call'.name = "FlushAllPages") =>
       /\ ret'.kind = "void"
       /\ status' = "running"
       /\ \A f \in Frames :
            Resident(f) =>
              /\ ~pages_'[f].is_dirty_
              /\ \E i \in 1..Len(writes') :
                   writes'[i] = <<pages_[f].page_id_, pages_[f].data_>>
       /\ \A f \in Frames : pages_'[f].pin_count_ = pages_[f].pin_count_
       /\ UNCHANGED <<page_table_, free_list_, replacer_>>]_vars

\* C13: FlushPage returns false without a disk write when the page is not
\* resident; otherwise it returns true whatever the pin count, issues exactly
\* WritePage(id, frame bytes), leaves the frame clean, and leaves pin count,
\* evictability, page table, free list and frame bytes as they were.
C13_FlushPage ==
  [][(call'.name = "FlushPage") =>
       LET id == call'.page_id
           f == FrameOf(id)
       IN IF ~InPageTable(id)
          THEN ret'.kind = "false" /\ writes' = <<>> /\ UNCHANGED pool
          ELSE /\ ret'.kind = "true"
               /\ writes' = <<(<<id, pages_[f].data_>>)>>
               /\ disk' = [disk EXCEPT ![id] = pages_[f].data_]
               /\ pages_' = [pages_ EXCEPT ![f].is_dirty_ = FALSE]
               /\ UNCHANGED <<page_table_, free_list_, replacer_,
                              next_page_id_>>]_vars

\* C13 witness: a flush of a dirty page that is still pinned has returned
\* true and left it clean.
C13_Witness ==
  /\ call.name = "FlushPage" /\ ret.kind = "true"
  /\ pages_[ret.frame].pin_count_ > 0
  /\ ~pages_[ret.frame].is_dirty_
  /\ writes = <<(<<call.page_id, pages_[ret.frame].data_>>)>>
  /\ pages_[ret.frame].data_ # ZeroImage

\* C14: the ids NewPage returns are 0, 1, 2, ... in order without gaps: a
\* NewPage that returns a handle returns next_page_id_ and raises it by one,
\* a NewPage that returns null leaves it alone, no other operation changes
\* it, and no frame holds an id that was not handed out.
C14_PageIdsMonotonic ==
  /\ next_page_id_ = 0
  /\ [](\A f \in Frames : pages_[f].page_id_ < next_page_id_)
  /\ [][/\ (call'.name = "NewPage" /\ ret'.kind = "handle") =>
             (/\ call'.page_id = next_page_id_
              /\ pages_'[ret'.frame].page_id_ = next_page_id_
              /\ next_page_id_' = next_page_id_ + 1)
        /\ (call'.name = "NewPage" /\ ret'.kind = "null") =>
             (next_page_id_' = next_page_id_)
        /\ (call'.name # "NewPage") =>
             (next_page_id_' = next_page_id_)]_vars

\* C14 witness: NewPage has returned null with every frame pinned after ids
\* were handed out, one of them deleted since.
C14_Witness ==
  /\ call.name = "NewPage" /\ ret.kind = "null"
  /\ next_page_id_ > PoolSize
  /\ AllPinned

\* C12: no thread waits for a latch it holds itself, so that every call that
\* has taken the buffer-pool latch can go on to release it.
C12_NoSelfDeadlock ==
  \A t \in Threads : pc[t] \in {"wait", "relock"} => owner # t

\* number of entries stored in the buckets of the table
HashTableCount(h) ==
  Cardinality(UNION {{<<ref, i>> : i \in 1..Len(h.buckets[ref].list_)} :
                       ref \in DOMAIN h.buckets})

\* C15: the table behaves as an ordinary map: every Insert returns, Find(k)
\* reports the value of the latest Insert(k, v) not followed by Remove(k)
\* and nothing otherwise, Remove(k) returns true iff k was present, and the
\* buckets hold exactly one entry per key of the map.
C15_OrdinaryMap ==
  /\ [](status = "running")
  /\ [](\A k \in Keys :
         /\ HashTableFind(table, k).found <=> k \in DOMAIN map
         /\ k \in DOMAIN map => HashTableFind(table, k).value = map[k])
  /\ [](/\ HashTableEntries(table) = {<<k, map[k]>> : k \in DOMAIN map}
        /\ HashTableCount(table) = Cardinality(DOMAIN map))
  /\ [][(call'.name = "Remove") =>
          (ret'.found <=> call'.key \in DOMAIN map)]_vars
  /\ [][(call'.name = "Find") =>
          /\ ret'.found <=> call'.key \in DOMAIN map
          /\ ret'.found => ret'.value = map[call'.key]]_vars

\* dir_[i] of the code, i from 0
DirAt(h, i) == h.dir_[i + 1]

\* C16: the directory has 2^global_depth entries, every bucket's local depth
\* is at most the global depth, two slots hold the same bucket exactly when
\* they agree on the low local-depth bits, every key sits in the bucket its
\* hash selects, and no bucket holds more than bucket_size entries.
C16_DirectoryWellFormed ==
  LET h == table
      n == 2^(h.global_depth_)
  IN /\ Len(h.dir_) = n
     /\ \A i \in 0..(n - 1) :
          LET b == h.buckets[DirAt(h, i)] IN
          /\ b.depth_ <= h.global_depth_
          /\ Len(b.list_) <= h.bucket_size_
          /\ \A j \in 0..(n - 1) :
               DirAt(h, i) = DirAt(h, j) <=> i % (2^(b.depth_)) = j % (2^(b.depth_))
          /\ \A e \in 1..Len(b.list_) :
               Hash(b.list_[e][1]) % (2^(b.depth_)) = i % (2^(b.depth_))

\* C16 witness: after inserts and a remove the directory has four slots,
\* two of them share a bucket of local depth 1, and a bucket is full with
\* two entries.
C16_Witness ==
  /\ call.name = "Remove" /\ ret.found
  /\ table.global_depth_ = 2
  /\ table.bucket_size_ = 2
  /\ \E i \in 0..3 : table.buckets[DirAt(table, i)].depth_ = 1
  /\ \E i \in 0..3 : Len(table.buckets[DirAt(table, i)].list_) = 2

\* frames of the replacer on its own that are tracked and flagged evictable
EvictableTracked ==
  {f \in DOMAIN hist : MapAt(lru.is_evictable_map, f, FALSE)}

\* C17: Evict returns only a tracked frame flagged evictable, returns a frame
\* with k or more accesses only when no evictable frame has fewer, and
\* returns none only when no tracked frame is evictable.
C17_EvictOrder ==
  [][(call'.name = "Evict") =>
       IF ret'.ok
       THEN /\ ret'.frame_id \in EvictableTracked
            /\ Len(hist[ret'.frame_id]) >= lru.k_ =>
                 \A g \in EvictableTracked : Len(hist[g]) >= lru.k_
       ELSE EvictableTracked = {}]_vars

\* C18: when every evictable frame has at least k accesses, Evict returns
\* the one whose k-th most recent access is the oldest.
C18_KthBackwardDistance ==
  [][(call'.name = "Evict" /\ ret'.ok) =>
       LET k == lru.k_
           KthRecent(g) == hist[g][Len(hist[g]) - k + 1]
       IN (/\ EvictableTracked # {}
           /\ \A g \in EvictableTracked : Len(hist[g]) >= k) =>
              /\ ret'.frame_id \in EvictableTracked
              /\ \A g \in EvictableTracked :
                   KthRecent(ret'.frame_id) <= KthRecent(g)]_vars

\* C19: when Evict returns a frame with fewer than k accesses, it is the one
\* whose first access is the earliest among the evictable frames with fewer
\* than k accesses, whatever accesses came later.
C19_HistoryFifo ==
  [][(call'.name = "Evict" /\ ret'.ok) =>
       LET H == {g \in EvictableTracked :
                   Len(hist[g]) >= 1 /\ Len(hist[g]) < lru.k_}
       IN ret'.frame_id \in H =>
            \A g \in H : hist[ret'.frame_id][1] <= hist[g][1]]_vars

\* C20: Size() is the number of tracked frames flagged evictable, it never
\* exceeds num_frames (so it never wraps below zero), and a SetEvictable
\* that repeats the call before it leaves Size() alone.
C20_SizeIsEvictableCount ==
  /\ [](ReplacerSize(lru) = Cardinality(EvictableTracked))
  /\ [](ReplacerSize(lru) <= lru.replacer_size_)
  /\ [][(call'.name = "SetEvictable" /\ call' = call) =>
          ReplacerSize(lru') = ReplacerSize(lru)]_vars

\* C21: Remove on a tracked frame whose evictable flag is false raises an
\* error and leaves the replacer as it was.
C21_RemoveNonEvictableFatal ==
  [][(/\ call'.name = "Remove"
      /\ call'.frame_id \in DOMAIN hist
      /\ ~MapAt(lru.is_evictable_map, call'.frame_id, FALSE)) =>
       (ret'.kind = "throw" /\ lru' = lru)]_vars

\* C22: RecordAccess with a frame id outside [0, num_frames) raises an error
\* and records nothing, so at most num_frames frames have an access count.
C22_RecordAccessRangeChecked ==
  /\ [][(/\ call'.name = "RecordAccess"
          /\ call'.frame_id \notin 0..(lru.replacer_size_ - 1)) =>
           (ret'.kind = "throw" /\ lru' = lru)]_vars
  /\ [](Cardinality(DOMAIN lru.access_count_map_) <= lru.replacer_size_)

\* C23: when NewPage or a FetchPage miss finds the free list empty and some
\* frame with pin count 0, Evict succeeds on the replacer as it stands and
\* yields a frame whose pin count is 0, and the call does not fault.
C23_EvictSucceeds ==
  [][(/\ call'.name \in {"NewPage", "FetchPage"}
      /\ call'.name = "FetchPage" => ~InPageTable(call'.page_id)
      /\ free_list_ = <<>>
      /\ HasAvailFrame) =>
       /\ Evict(replacer_).ok
       /\ Evict(replacer_).frame_id \in Frames
       /\ pages_[Evict(replacer_).frame_id].pin_count_ = 0
       /\ status' = "running"]_vars

\* the Absent state of a frame: in neither list, no access count, no flag
Absent(r, f) ==
  /\ \A i \in 1..Len(r.lru_list_) : r.lru_list_[i] # f
  /\ \A i \in 1..Len(r.lru_k_list_) : r.lru_k_list_[i] # f
  /\ f \notin DOMAIN r.access_count_map_
  /\ f \notin DOMAIN r.is_evictable_map

\* C24: a frame that Evict has returned, or that Remove has removed, is
\* absent afterwards: in neither list, without access count and without
\* evictable flag.
C24_EvictedIsAbsent ==
  [][/\ (call'.name = "Evict" /\ ret'.ok) => Absent(lru', ret'.frame_id)
     /\ (/\ call'.name = "Remove" /\ ret'.kind = "void"
         /\ MapAt(lru.is_evictable_map, call'.frame_id, FALSE)) =>
          Absent(lru', call'.frame_id)]_vars

\* the keys of a bucket list, in order
BucketKeys(b) == [i \in 1..Len(b.list_) |-> b.list_[i][1]]

\* C25: Insert of a key that is present replaces its value and nothing else:
\* global depth, bucket count, directory and the bucket of every key stay.
C25_OverwriteInPlace ==
  [][(call'.name = "Insert" /\ HashTableFind(table, call'.key).found) =>
       /\ ret'.kind = "void"
       /\ table'.global_depth_ = table.global_depth_
       /\ table'.num_buckets_ = table.num_buckets_
       /\ table'.dir_ = table.dir_
       /\ DOMAIN table'.buckets = DOMAIN table.buckets
       /\ \A ref \in DOMAIN table.buckets :
            BucketKeys(table'.buckets[ref]) = BucketKeys(table.buckets[ref])
       /\ HashTableFind(table', call'.key).value = call'.value]_vars

\* C26: Evict returns a frame exactly when Size() is above 0.
C26_EvictIffSizePositive ==
  [][(call'.name = "Evict") => (ret'.ok <=> ReplacerSize(lru) > 0)]_vars

\* the Bucket objects the directory refers to
LiveBuckets(h) == {h.dir_[i] : i \in 1..Len(h.dir_)}

====
